---- MODULE Spec2Model ----
(***************************************************************************)
(* Model of scripts/embedding_inspector.py (Embedding Inspector extension  *)
(* for stable-diffusion-webui, version 2.5): the resolver                  *)
(* get_embedding_info, the inspector do_inspect, the mixer do_save, the    *)
(* listing do_listloaded and the mini tokenizer do_minitokenize, together  *)
(* with the host state they read and write: the embedder variant, the      *)
(* vocabulary embedding matrix, the loaded-embeddings dictionary and the   *)
(* files of the embeddings directory.                                      *)
(*                                                                         *)
(* Text is a sequence of one-character strings, so that strip(),           *)
(* startswith('#'), int() and str() are computed and not assumed.  A       *)
(* tensor is a sequence of rows, a row a sequence of integers; weights     *)
(* and multipliers are integers, so sums and products are exact.           *)
(***************************************************************************)
EXTENDS Integers, Sequences, FiniteSets, TLC

\* ------------------------------------------------------------------ bounds

\* rows of the vocabulary of the SD1.x host (at least MAX_SIMILAR_EMBS)
VocabRowsSD1 == 32
\* rows of the vocabulary of the SD2.0 host (fewer than MAX_SIMILAR_EMBS)
VocabRowsSD2 == 5
\* mix slots a user fills in one request; the other slots stay empty
MaxEntries == 3
\* files written by do_save in one run of the model
MaxSaves == 1

\* --------------------------------------------------------- program constants

MAX_NUM_MIX == 6
MAX_SIMILAR_EMBS == 30

\* -------------------------------------------------------------------- text

Digits == {"0", "1", "2", "3", "4", "5", "6", "7", "8", "9"}

\* str.isspace(): the characters strip() removes
Whitespace == {" "}

\* a control character: not whitespace for str.strip(), removed by the
\* tokenizer's text cleaning
ControlChars == {"^"}

DigitVal(c) ==
    CASE c = "0" -> 0 [] c = "1" -> 1 [] c = "2" -> 2 [] c = "3" -> 3
      [] c = "4" -> 4 [] c = "5" -> 5 [] c = "6" -> 6 [] c = "7" -> 7
      [] c = "8" -> 8 [] c = "9" -> 9

DigitChar(d) ==
    CASE d = 0 -> "0" [] d = 1 -> "1" [] d = 2 -> "2" [] d = 3 -> "3"
      [] d = 4 -> "4" [] d = 5 -> "5" [] d = 6 -> "6" [] d = 7 -> "7"
      [] d = 8 -> "8" [] d = 9 -> "9"

RECURSIVE lstrip(_)
lstrip(text) ==
    IF text # <<>> /\ Head(text) \in Whitespace THEN lstrip(Tail(text)) ELSE text

RECURSIVE rstrip(_)
rstrip(text) ==
    IF text # <<>> /\ text[Len(text)] \in Whitespace
    THEN rstrip(SubSeq(text, 1, Len(text) - 1))
    ELSE text

\* str.strip()
strip(text) == rstrip(lstrip(text))

\* str.startswith('#')
startswith_hash(text) == text # <<>> /\ Head(text) = "#"

\* str(n) for an integer n
RECURSIVE nat_str(_)
nat_str(n) ==
    IF n < 10 THEN <<DigitChar(n)>> ELSE nat_str(n \div 10) \o <<DigitChar(n % 10)>>

str(n) == IF n < 0 THEN <<"-">> \o nat_str(-n) ELSE nat_str(n)

\* the digits of an int() literal after its sign: digits, with single
\* underscores allowed between two digits
digits_ok(s) ==
    /\ s # <<>>
    /\ \A i \in 1..Len(s) : s[i] \in Digits \cup {"_"}
    /\ s[1] \in Digits /\ s[Len(s)] \in Digits
    /\ \A i \in 1..(Len(s) - 1) : ~(s[i] = "_" /\ s[i + 1] = "_")

RECURSIVE digits_val(_, _)
digits_val(s, acc) ==
    IF s = <<>> THEN acc
    ELSE IF Head(s) = "_" THEN digits_val(Tail(s), acc)
    ELSE digits_val(Tail(s), 10 * acc + DigitVal(Head(s)))

unsigned(s) == IF s # <<>> /\ Head(s) \in {"+", "-"} THEN Tail(s) ELSE s

\* whether int(text) returns (it raises ValueError otherwise)
int_ok(text) == digits_ok(unsigned(strip(text)))

signed(s, v) == IF Head(s) = "-" THEN -v ELSE v

int_stripped(s) == signed(s, digits_val(unsigned(s), 0))

\* int(text), for a text int() accepts
int(text) == int_stripped(strip(text))

\* ' '.join(parts)
RECURSIVE join(_)
join(parts) ==
    IF parts = <<>> THEN <<>>
    ELSE IF Len(parts) = 1 THEN parts[1]
    ELSE parts[1] \o <<" ">> \o join(Tail(parts))

\* -------------------------------------------------------------------- state

VARIABLES
    embedder,     \* class name of shared.sd_model.cond_stage_model.wrapped
    loaded_embs,  \* embedding_db.word_embeddings: name -> Embedding
    files,        \* the embeddings directory: save_name -> saved record
    nsaves,       \* files written by do_save so far
    call,         \* the operation last called, with its arguments
    result        \* what that call returned, or that it raised

vars == <<embedder, loaded_embs, files, nsaves, call, result>>

\* ------------------------------------------------------------------ tensors

RECURSIVE pow5(_)
pow5(n) == IF n = 0 THEN 1 ELSE 5 * pow5(n - 1)

zeros_row(size) == [d \in 1..size |-> 0]

\* torch.zeros(rows, size)
zeros(rows, size) == [r \in 1..rows |-> zeros_row(size)]

\* row * scalar
row_mul(row, k) == [d \in 1..Len(row) |-> row[d] * k]

\* tensor * scalar
vec_mul(vec, k) == [r \in 1..Len(vec) |-> row_mul(vec[r], k)]

\* tensor + tensor of the same shape
vec_add(a, b) == [r \in 1..Len(a) |-> [d \in 1..Len(a[r]) |-> a[r][d] + b[r][d]]]

\* tensor.shape[1] of a tensor with at least one row
shape1(vec) == Len(vec[1])

RECURSIVE row_sum(_)
row_sum(row) == IF row = <<>> THEN 0 ELSE Head(row) + row_sum(Tail(row))

RECURSIVE vec_sum(_)
vec_sum(vec) == IF vec = <<>> THEN 0 ELSE row_sum(Head(vec)) + vec_sum(Tail(vec))

\* Embedding.checksum() of the host: a short hash of the vector's values
checksum(vec) == (vec_sum(vec) * 100) % 65536

\* --------------------------------------------------------------------- host

Embedders == {"FrozenCLIPEmbedder", "FrozenOpenCLIPEmbedder", "OtherEmbedder"}

\* a vocabulary matrix of the given rows and width: row i+1 is the vector of
\* vocabulary ID i (rows repeat from ID 25 on, ID 12 is the zero row of a
\* width 2 matrix)
weight(rows, width) ==
    [r \in 1..rows |-> [d \in 1..width |-> (((r - 1) \div pow5(d - 1)) % 5) - 2]]

WeightSD1 == weight(VocabRowsSD1, 2)

WeightSD2 == weight(VocabRowsSD2, 3)

\* token_embedding.wrapped.weight of the model
token_embedding(e) == IF e = "FrozenCLIPEmbedder" THEN WeightSD1 ELSE WeightSD2

\* get_data(): the tokenizer's class, the vocabulary matrix (<<>> for None)
get_data ==
    IF embedder = "FrozenCLIPEmbedder"
    THEN [tokenizer |-> "CLIPTokenizer", internal_embs |-> token_embedding(embedder)]
    ELSE IF embedder = "FrozenOpenCLIPEmbedder"
    THEN [tokenizer |-> "SimpleTokenizer", internal_embs |-> token_embedding(embedder)]
    ELSE [tokenizer |-> "NoneType", internal_embs |-> <<>>]

\* the vocabulary ID of a one-character token
token_id(c) ==
    CASE c = "#" -> 0 [] c = "a" -> 1 [] c = "b" -> 2 [] c = "c" -> 3 [] OTHER -> 4

\* the host tokenizer: control characters are cleaned away, whitespace
\* separates, every other character is one token
RECURSIVE encode(_)
encode(text) ==
    IF text = <<>> THEN <<>>
    ELSE IF Head(text) \in Whitespace \cup ControlChars THEN encode(Tail(text))
    ELSE <<token_id(Head(text))>> \o encode(Tail(text))

\* text_to_emb_ids(text, tokenizer): [none |-> TRUE] stands for None
text_to_emb_ids(text, tokenizer) ==
    IF tokenizer = "CLIPTokenizer" THEN [none |-> FALSE, ids |-> encode(text)]
    ELSE IF tokenizer = "SimpleTokenizer" THEN [none |-> FALSE, ids |-> encode(text)]
    ELSE [none |-> TRUE, ids |-> <<>>]

UnknownName == <<"!">>

\* a decoder table: the token string of every vocabulary ID below rows
token_strings(rows) == [r \in 1..rows |-> <<"t">> \o str(r - 1)]

DecoderSD1 == token_strings(VocabRowsSD1)

DecoderSD2 == token_strings(VocabRowsSD2)

\* tokenizer.decoder
decoder(tokenizer) ==
    IF tokenizer = "CLIPTokenizer" THEN DecoderSD1
    ELSE IF tokenizer = "SimpleTokenizer" THEN DecoderSD2
    ELSE <<>>

\* emb_id_to_name(emb_id, tokenizer)
emb_id_to_name(emb_id, tokenizer) ==
    IF emb_id + 1 \in DOMAIN decoder(tokenizer)
    THEN decoder(tokenizer)[emb_id + 1]
    ELSE UnknownName

\* ----------------------------------------------------------------- resolver

StepNone == [has |-> FALSE, val |-> 0]

NoInfo(st) ==
    [st |-> st, name |-> <<>>, id |-> [int |-> TRUE, val |-> 0], vec |-> <<>>,
     loaded |-> FALSE]

\* a range test that stops one row short of the vocabulary
in_range_mut(v, rows) == IF v < 0 \/ v >= rows - 1 THEN -1 ELSE v

in_range(v, rows) == IF v < 0 \/ v >= rows THEN -1 ELSE v

\* lines 82-88: the #nnnnn format; -1 stands for val = None
hash_val(text, internal_embs, supported) ==
    IF startswith_hash(text) /\ int_ok(Tail(text)) /\ supported
    THEN in_range(int(Tail(text)), Len(internal_embs))
    ELSE -1

\* lines 90-101, with val (-1 is None) and the tokenizer's answer at hand
internal_info(d, val, found) ==
    IF val # -1
    THEN [st |-> "ok", name |-> emb_id_to_name(val, d.tokenizer),
          id |-> [int |-> TRUE, val |-> val],
          vec |-> <<d.internal_embs[val + 1]>>, loaded |-> FALSE]
    ELSE IF found.none THEN NoInfo("raise")
    ELSE IF found.ids = <<>> THEN NoInfo("none")
    ELSE IF found.ids[1] >= Len(d.internal_embs) THEN NoInfo("raise")
    ELSE [st |-> "ok", name |-> emb_id_to_name(found.ids[1], d.tokenizer),
          id |-> [int |-> TRUE, val |-> found.ids[1]],
          vec |-> <<d.internal_embs[found.ids[1] + 1]>>, loaded |-> FALSE]

\* lines 74-79: the loaded embedding of that name
loaded_info(loaded_emb) ==
    [st |-> "ok", name |-> loaded_emb.name,
     id |-> [int |-> FALSE, val |-> checksum(loaded_emb.vec)],
     vec |-> loaded_emb.vec, loaded |-> TRUE]

resolve(text, d) ==
    IF text \in DOMAIN loaded_embs
    THEN loaded_info(loaded_embs[text])
    ELSE internal_info(d, hash_val(text, d.internal_embs, d.tokenizer # "NoneType"),
                       text_to_emb_ids(text, d.tokenizer))

\* get_embedding_info(text): st is "ok" (a 4-tuple of values), "none" (the
\* 4-tuple of None) or "raise" (an exception leaves the function)
get_embedding_info(text) == resolve(text, get_data)

\* ---------------------------------------------------------------- inspector

dot(a, b) == row_sum([d \in 1..Len(a) |-> a[d] * b[d]])

\* torch.nn.CosineSimilarity(dim=1, eps=1e-6) of row a with v, as the exact
\* fraction sign(a.v) * (a.v)^2 / |a|^2 (the common factor 1/|v|^2 left out);
\* a zero row has similarity 0
cos_key(a, v) ==
    LET d == dot(a, v)
        n == dot(a, a)
    IN IF n = 0 THEN [num |-> 0, den |-> 1]
       ELSE [num |-> IF d < 0 THEN -(d * d) ELSE d * d, den |-> n]

key_gt(k1, k2) == k1.num * k2.den > k2.num * k1.den

key_eq(k1, k2) == k1.num * k2.den = k2.num * k1.den

\* the orders torch.sort(descending=True), called without stable=True, may
\* leave equal scores in: by ascending ID (the stable order) or descending ID
TieOrders == {"asc", "desc"}

\* whether vocabulary ID j stands before a later-inserted ID i in the sorted
\* order: a higher score, or an equal score in the order `tie` (j < i)
stands_before(j, i, all_embs, vec_v, tie) ==
    LET kj == cos_key(all_embs[j + 1], vec_v)
        ki == cos_key(all_embs[i + 1], vec_v)
    IN key_gt(kj, ki) \/ (key_eq(kj, ki) /\ tie = "asc")

RECURSIVE insert_id(_, _, _, _, _)
insert_id(sorted, i, all_embs, vec_v, tie) ==
    IF sorted = <<>> THEN <<i>>
    ELSE IF stands_before(Head(sorted), i, all_embs, vec_v, tie)
    THEN <<Head(sorted)>> \o insert_id(Tail(sorted), i, all_embs, vec_v, tie)
    ELSE <<i>> \o sorted

RECURSIVE sort_from(_, _, _, _, _)
sort_from(i, sorted, all_embs, vec_v, tie) ==
    IF i >= Len(all_embs) THEN sorted
    ELSE sort_from(i + 1, insert_id(sorted, i, all_embs, vec_v, tie),
                   all_embs, vec_v, tie)

\* torch.sort(scores, descending=True)[1]: the vocabulary IDs by descending
\* score, equal scores in the order `tie`
sorted_ids(all_embs, vec_v, tie) == sort_from(0, <<>>, all_embs, vec_v, tie)

\* lines 156-162: the names and IDs of the first MAX_SIMILAR_EMBS sorted IDs
similar_embs(ids, tokenizer) ==
    IF Len(ids) < MAX_SIMILAR_EMBS
    THEN [compatible |-> TRUE, raised |-> TRUE, similar |-> <<>>]
    ELSE [compatible |-> TRUE, raised |-> FALSE,
          similar |-> [i \in 1..MAX_SIMILAR_EMBS |->
              [name |-> emb_id_to_name(ids[i], tokenizer), id |-> ids[i]]]]

\* lines 147-164 for one row: [compatible, raised, similar]
inspect_row(vec_v, d, tie) ==
    IF Len(vec_v) # shape1(d.internal_embs)
    THEN [compatible |-> FALSE, raised |-> FALSE, similar |-> <<>>]
    ELSE similar_embs(sorted_ids(d.internal_embs, vec_v, tie), d.tokenizer)

RECURSIVE inspect_rows(_, _, _)
inspect_rows(vec, d, tie) ==
    IF vec = <<>> THEN <<>>
    ELSE <<inspect_row(Head(vec), d, tie)>> \o inspect_rows(Tail(vec), d, tie)

InspectResult(out, info, rows) == [out |-> out, info |-> info, rows |-> rows]

\* lines 136-166: the report of a resolved embedding
report(info, d, rows) ==
    IF \E v \in 1..Len(rows) : rows[v].raised
    THEN InspectResult("raise", info, <<>>)
    ELSE InspectResult("report", info, rows)

\* lines 111-166
inspect_info(info, d, tie) ==
    IF info.st = "raise" THEN InspectResult("raise", NoInfo("raise"), <<>>)
    ELSE IF info.st = "none" THEN InspectResult("error", NoInfo("none"), <<>>)
    ELSE IF d.tokenizer = "NoneType" THEN InspectResult("raise", info, <<>>)
    ELSE report(info, d, inspect_rows(info.vec, d, tie))

inspect_stripped(text, tie) ==
    IF text = <<>> THEN InspectResult("need_name", NoInfo("none"), <<>>)
    ELSE inspect_info(get_embedding_info(text), get_data, tie)

\* do_inspect(text): out is "need_name" or "error" (the two messages),
\* "report" (the report, one entry of rows per vector) or "raise"
do_inspect(text, tie) == inspect_stripped(strip(text), tie)

\* -------------------------------------------------------------------- mixer

\* one line of the log do_save returns
Line(k, name, id, w) == [k |-> k, name |-> name, id |-> id, w |-> w]

Note(k) == Line(k, <<>>, [int |-> TRUE, val |-> 0], 0)

\* torch.cat([vec, torch.zeros(rows - vec.shape[0], vec_size)])
pad_rows(vec, rows, vec_size) == vec \o zeros(rows - Len(vec), vec_size)

max_rows(a, b) == IF Len(a) > Len(b) THEN Len(a) ELSE Len(b)

\* an addition that forgets the entry's weight
sum_padded_mut(tot_vec, mix_vec, mixval, rows, vec_size) ==
    vec_add(pad_rows(tot_vec, rows, vec_size), pad_rows(mix_vec, rows, vec_size))

\* lines 219-226: both padded to the longer one's rows, then added
sum_padded(tot_vec, mix_vec, mixval, rows, vec_size) ==
    vec_add(pad_rows(tot_vec, rows, vec_size),
            vec_mul(pad_rows(mix_vec, rows, vec_size), mixval))

sum_into(tot_vec, mix_vec, mixval, vec_size) ==
    sum_padded(tot_vec, mix_vec, mixval, max_rows(tot_vec, mix_vec), vec_size)

\* lines 215-227: one entry added to tot_vec in sum mode (<<>> is None)
mix_sum(tot_vec, mix_vec, mixval, vec_size) ==
    sum_into(IF tot_vec = <<>> THEN zeros(1, vec_size) ELSE tot_vec,
             mix_vec, mixval, vec_size)

\* a concatenation that puts the new entry first
mix_concat_mut(tot_vec, mix_vec, mixval) == vec_mul(mix_vec, mixval) \o tot_vec

\* lines 228-233: one entry appended to tot_vec in concat mode
mix_concat(tot_vec, mix_vec, mixval) == tot_vec \o vec_mul(mix_vec, mixval)

\* an entry of another size left out without its log line
mix_entry_mut(acc, info, mixval, vec_size, concat_mode) ==
    IF vec_size # shape1(info.vec) THEN acc
    ELSE IF ~concat_mode
    THEN [acc EXCEPT !.vec_size = vec_size,
              !.tot_vec = mix_sum(@, info.vec, mixval, vec_size),
              !.log = Append(@, Line("add", info.name, info.id, mixval))]
    ELSE [acc EXCEPT !.vec_size = vec_size,
              !.tot_vec = mix_concat(@, info.vec, mixval),
              !.log = Append(@, Line("concat", info.name, info.id, mixval))]

\* lines 208-233: a resolved entry with the vector size of the call at hand
mix_entry(acc, info, mixval, vec_size, concat_mode) ==
    IF vec_size # shape1(info.vec)
    THEN [acc EXCEPT !.log = Append(@, Line("skip", info.name, info.id, 0))]
    ELSE IF ~concat_mode
    THEN [acc EXCEPT !.vec_size = vec_size,
              !.tot_vec = mix_sum(@, info.vec, mixval, vec_size),
              !.log = Append(@, Line("add", info.name, info.id, mixval))]
    ELSE [acc EXCEPT !.vec_size = vec_size,
              !.tot_vec = mix_concat(@, info.vec, mixval),
              !.log = Append(@, Line("concat", info.name, info.id, mixval))]

\* lines 205-213: emb_vec.to() raises on the None of an unresolved name
mix_info(acc, info, mixval, concat_mode) ==
    IF info.st # "ok" THEN [acc EXCEPT !.raised = TRUE]
    ELSE mix_entry(acc, info, mixval,
                   IF acc.vec_size = 0 THEN shape1(info.vec) ELSE acc.vec_size,
                   concat_mode)

\* lines 201-233: one mix slot
mix_slot(acc, name, mixval, concat_mode) ==
    IF name = <<>> \/ mixval = 0 THEN acc
    ELSE mix_info(acc, get_embedding_info(name), mixval, concat_mode)

\* lines 200-233: the loop over the mix slots from slot k on; acc holds
\* vec_size (0 is None), tot_vec (<<>> is None), the log and whether an
\* exception left the loop
RECURSIVE mix_loop(_, _, _)
mix_loop(k, args, acc) ==
    IF k > MAX_NUM_MIX \/ acc.raised THEN acc
    ELSE mix_loop(k + 1, args,
             mix_slot(acc, strip(args.names[k]), args.mixvals[k], args.concat_mode))

\* lines 190-195: the step value and its log line
step_of(step_text) ==
    IF int_ok(step_text) THEN [has |-> TRUE, val |-> int(step_text)] ELSE StepNone

\* embedding_db.load_textual_inversion_embeddings() of the host, with
\* dir_mtime reset: the dictionary is rebuilt from the directory's files
load_textual_inversion_embeddings(fs) ==
    [n \in {fs[f].name : f \in DOMAIN fs} |->
        fs[CHOOSE f \in DOMAIN fs : fs[f].name = n]]

\* lines 247-251: new_emb.save(save_filename), which raises when io_ok is off
save(fs, save_name, new_emb, io_ok) ==
    IF io_ok THEN (save_name :> new_emb) @@ fs ELSE fs

SaveResult(out, log, tot_vec, wrote, fs, embs) ==
    [out |-> out, log |-> log, tot_vec |-> tot_vec, wrote |-> wrote,
     files |-> fs, loaded_embs |-> embs]

\* a file-exists test that never stops the call
may_write_mut(file_exists, enable_overwrite) == TRUE

\* whether lines 184-186 let the call go on
may_write(file_exists, enable_overwrite) == ~file_exists \/ enable_overwrite

\* lines 182-195: the log before the mix
first_lines(file_exists, step_text) ==
    (IF file_exists THEN <<Note("exists_overwrite")>> ELSE <<>>)
    \o (IF ~int_ok(step_text) /\ step_text # <<>>
        THEN <<Note("step_invalid")>> ELSE <<>>)

\* lines 240-253: the log after the mix
last_lines(global_mul, step_val, io_ok) ==
    (IF global_mul # 1 THEN <<Note("global_mul")>> ELSE <<>>)
    \o (IF step_val.has THEN <<Note("set_step")>> ELSE <<>>)
    \o <<Note(IF io_ok THEN "saved" ELSE "save_error"), Note("reloading")>>

\* a save that leaves the host's dictionary as it was
save_and_reload_mut(log, tot_vec, io_ok, fs) ==
    SaveResult("log", log, tot_vec, io_ok, fs, loaded_embs)

\* lines 247-255: the file written, then the host's dictionary reloaded
save_and_reload(log, tot_vec, io_ok, fs) ==
    SaveResult("log", log, tot_vec, io_ok, fs, load_textual_inversion_embeddings(fs))

\* lines 239-255
save_mixed(log, tot_vec, save_name, global_mul, step_val, io_ok) ==
    save_and_reload(log \o last_lines(global_mul, step_val, io_ok), tot_vec, io_ok,
        save(files, save_name,
             [name |-> save_name, vec |-> tot_vec, step |-> step_val], io_ok))

\* lines 235-257
after_mix(mixed, args, save_name, step_val, io_ok) ==
    IF mixed.raised
    THEN SaveResult("raise", <<>>, <<>>, FALSE, files, loaded_embs)
    ELSE IF mixed.tot_vec = <<>>
    THEN SaveResult("log", Append(mixed.log, Note("nothing")), <<>>, FALSE,
                    files, loaded_embs)
    ELSE save_mixed(mixed.log, vec_mul(mixed.tot_vec, args.global_mul), save_name,
                    args.global_mul, step_val, io_ok)

\* lines 178-257, with the stripped file name and step at hand
save_named(args, save_name, step_text, file_exists, io_ok) ==
    IF save_name = <<>>
    THEN SaveResult("empty_name", <<>>, <<>>, FALSE, files, loaded_embs)
    ELSE IF ~may_write(file_exists, args.enable_overwrite)
    THEN SaveResult("exists", <<>>, <<>>, FALSE, files, loaded_embs)
    ELSE after_mix(mix_loop(1, args,
                       [vec_size |-> 0, tot_vec |-> <<>>,
                        log |-> first_lines(file_exists, step_text),
                        raised |-> FALSE]),
                   args, save_name, step_of(step_text), io_ok)

\* do_save(*args): out is "empty_name" or "exists" (the two early
\* messages), "raise", or "log" (the log is returned); files and
\* loaded_embs are the directory and the dictionary as the call leaves them
do_save(args, io_ok) ==
    save_named(args, strip(args.save_name), strip(args.step_text),
               strip(args.save_name) \in DOMAIN files, io_ok)

\* ------------------------------------------------------------------ listing

\* do_listloaded(): the count and one line for each loaded embedding
do_listloaded ==
    [out |-> "list", count |-> Cardinality(DOMAIN loaded_embs),
     lines |-> {[name |-> loaded_embs[key].name,
                 checksum |-> checksum(loaded_embs[key].vec),
                 rows |-> Len(loaded_embs[key].vec),
                 size |-> shape1(loaded_embs[key].vec)] : key \in DOMAIN loaded_embs}]

\* ----------------------------------------------------------- mini tokenizer

\* slots beyond the found IDs left as they were
mix_inputs_list_mut(args, results) ==
    [i \in 1..MAX_NUM_MIX |->
        IF ~args.mini_sendtomix THEN args.mix_inputs[i]
        ELSE IF i <= Len(results) THEN results[i]
        ELSE args.mix_inputs[i]]

\* lines 303-312: the mix name slots as the call returns them
mix_inputs_list(args, results) ==
    [i \in 1..MAX_NUM_MIX |->
        IF ~args.mini_sendtomix THEN args.mix_inputs[i]
        ELSE IF i <= Len(results) THEN results[i]
        ELSE <<>>]

idstrs(found_ids) == [i \in 1..Len(found_ids) |-> <<"#">> \o str(found_ids[i])]

tokens_result(args, results) ==
    [out |-> "tokens", mix_inputs |-> mix_inputs_list(args, results),
     concat_mode |-> IF args.mini_sendtomix THEN TRUE ELSE args.concat_mode,
     ids |-> results, text |-> join(results)]

minitokenize_found(args, found) ==
    IF found.none
    THEN [out |-> "raise", mix_inputs |-> <<>>, concat_mode |-> FALSE,
          ids |-> <<>>, text |-> <<>>]
    ELSE tokens_result(args, idstrs(found.ids))

\* do_minitokenize(*args): out is "tokens" (the mix name slots, the concat
\* flag and the joined '#'+str(id) strings are returned) or "raise"
do_minitokenize(args) ==
    minitokenize_found(args, text_to_emb_ids(strip(args.mini_input), get_data.tokenizer))

\* ----------------------------------------------------------------- requests

\* what a user sets a mix slot to: a name and the slider's value
SlotChoices ==
    { [name |-> <<"^">>, mixval |-> 0],
      [name |-> <<" ", "a", " ">>, mixval |-> -1],
      [name |-> <<"b">>, mixval |-> 1],
      [name |-> <<"c">>, mixval |-> 1],
      [name |-> <<"^">>, mixval |-> 1] }

\* the mix widgets: the first MaxEntries slots filled in, the others left
\* at their defaults (an empty name, multiplier 1)
MixSlots ==
    { [k \in 1..MAX_NUM_MIX |->
          IF k <= MaxEntries THEN e[k] ELSE [name |-> <<>>, mixval |-> 1]] :
      e \in [1..MaxEntries -> SlotChoices] }

SaveArgs(slots, global_mul, concat_mode, save_name, enable_overwrite, step_text) ==
    [names |-> [k \in 1..MAX_NUM_MIX |-> slots[k].name],
     mixvals |-> [k \in 1..MAX_NUM_MIX |-> slots[k].mixval],
     global_mul |-> global_mul, concat_mode |-> concat_mode,
     save_name |-> save_name, enable_overwrite |-> enable_overwrite,
     step_text |-> step_text]

\* the mixes of one embedding with itself, and of one unresolvable name
FewSlots ==
    { sl \in MixSlots :
        /\ \A k \in 2..MaxEntries : sl[k] = sl[1]
        /\ sl[1].name \in {<<"b">>, <<"^">>} /\ sl[1].mixval = 1 }

\* the Save requests: every mix, in both modes, saved as "a" without
\* overwrite, and a few mixes under every filename, overwrite flag and step
SaveRequests ==
    { SaveArgs(sl, 3, c, <<"a">>, FALSE, <<>>) : sl \in MixSlots, c \in BOOLEAN }
    \cup
    { SaveArgs(sl, 1, c, n, o, st) :
        sl \in FewSlots, c \in BOOLEAN,
        n \in {<<>>, <<"a">>, <<" ", "b", " ">>, <<"#", "1">>},
        o \in BOOLEAN, st \in {<<>>, <<" ", "7">>, <<"x">>} }

InspectTexts ==
    { <<>>, <<" ">>, <<" ", "a">>, <<"b">>, <<"c">>, <<"^">>, <<"#", "1">>,
      <<"#", "1", "2">>, <<"#", "3", "0">>, <<"#", "+", "2">>, <<"#", "9", "9">> }

MiniRequests ==
    { [mix_inputs |-> mi, concat_mode |-> c, mini_sendtomix |-> s, mini_input |-> t] :
        mi \in { [k \in 1..MAX_NUM_MIX |-> <<>>],
                 [k \in 1..MAX_NUM_MIX |-> IF k % 2 = 1 THEN <<"a">> ELSE <<"b">>] },
        c \in BOOLEAN, s \in BOOLEAN,
        t \in { <<>>, <<" ", " ">>, <<"a", " ", "b", "c">>,
                <<"a", "b", "c", "#", "1", "a", "b">> } }

\* ------------------------------------------------------------ specification

\* the embeddings directory as the host starts: two trained embeddings of
\* two rows each, one of each model's width
InitFiles ==
    (<<"b">> :> [name |-> <<"b">>, vec |-> <<<<1, 2>>, <<-1, 0>>>>, step |-> StepNone])
    @@ (<<"c">> :> [name |-> <<"c">>, vec |-> <<<<1, 1, 1>>, <<0, 2, -1>>>>,
                    step |-> [has |-> TRUE, val |-> 100]])

Idle == [op |-> "idle", args |-> <<>>, io_ok |-> TRUE]

Init ==
    /\ embedder \in Embedders
    /\ files = InitFiles
    /\ loaded_embs = load_textual_inversion_embeddings(InitFiles)
    /\ nsaves = 0
    /\ call = Idle
    /\ result = [out |-> "none"]

\* the Inspect button
DoInspect ==
    \E text \in InspectTexts, tie \in TieOrders :
        /\ call = Idle
        /\ call' = [op |-> "inspect", args |-> [text |-> text], io_ok |-> TRUE]
        /\ result' = do_inspect(text, tie)
        /\ UNCHANGED <<embedder, loaded_embs, files, nsaves>>

\* the state a Save request leaves, r being what do_save did; a request
\* that writes a file is taken while fewer than MaxSaves files were written,
\* and the write fails (io_ok off) only in a call that reaches it
Saved(args, io_ok, r) ==
    /\ r.wrote => nsaves < MaxSaves
    /\ ~io_ok => r.out = "log" /\ r.tot_vec # <<>>
    /\ call' = [op |-> "save", args |-> args, io_ok |-> io_ok]
    /\ result' = [out |-> r.out, log |-> r.log, tot_vec |-> r.tot_vec,
                  wrote |-> r.wrote]
    /\ files' = r.files
    /\ loaded_embs' = r.loaded_embs
    /\ nsaves' = IF r.wrote THEN nsaves + 1 ELSE nsaves
    /\ UNCHANGED embedder

\* the Save mixed button
DoSave ==
    \E args \in SaveRequests, io_ok \in BOOLEAN :
        /\ call = Idle
        /\ \E r \in {do_save(args, io_ok)} : Saved(args, io_ok, r)

\* the List loaded embeddings button
DoListLoaded ==
    /\ call = Idle
    /\ call' = [op |-> "listloaded", args |-> <<>>, io_ok |-> TRUE]
    /\ result' = do_listloaded
    /\ UNCHANGED <<embedder, loaded_embs, files, nsaves>>

\* the Tokenize button
DoMiniTokenize ==
    \E args \in MiniRequests :
        /\ call = Idle
        /\ call' = [op |-> "minitokenize", args |-> args, io_ok |-> TRUE]
        /\ result' = do_minitokenize(args)
        /\ UNCHANGED <<embedder, loaded_embs, files, nsaves>>

\* the handler has returned and its outputs are shown: the next click
Ready ==
    /\ call # Idle
    /\ call' = Idle
    /\ result' = [out |-> "none"]
    /\ UNCHANGED <<embedder, loaded_embs, files, nsaves>>

Next == DoInspect \/ DoSave \/ DoListLoaded \/ DoMiniTokenize \/ Ready

Spec == Init /\ [][Next]_vars

\* ------------------------------------------------------------------- claims

SaveName == strip(call.args.save_name)

HashText(i) == <<"#">> \o str(i)

VocabSize == Len(get_data.internal_embs)

\* what resolving '#'+str(i) to the vocabulary row i returns
InternalRow(i) ==
    [st |-> "ok", name |-> emb_id_to_name(i, get_data.tokenizer),
     id |-> [int |-> TRUE, val |-> i],
     vec |-> <<get_data.internal_embs[i + 1]>>, loaded |-> FALSE]

\* C1: a do_save call whose target file exists, with the overwrite flag off,
\* returns the 'File already exists' message whatever the mix slots, the
\* multiplier, the mode and the step are, and leaves the directory's files
\* and the loaded-embeddings dictionary as they were.
C1_ExistingFileKept ==
    [][(/\ call'.op = "save"
        /\ strip(call'.args.save_name) \in DOMAIN files
        /\ ~call'.args.enable_overwrite)
       => (result'.out = "exists" /\ files' = files /\ loaded_embs' = loaded_embs)]_vars

\* a file written by an earlier Save is kept by a later concat-mode Save
\* of the same name without overwrite
C1_Witness ==
    /\ call.op = "save" /\ result.out = "exists"
    /\ nsaves = 1 /\ SaveName = <<"a">>
    /\ call.args.concat_mode /\ call.args.global_mul = 3
    /\ call.args.names[1] = <<"b">>

\* C3: no operation lets an exception escape: each returns a result or a
\* message.
C3_NoUncaughtException == result.out # "raise"

\* C4 as stated: for every valid vocabulary ID i and every state of the
\* loaded-embeddings dictionary, get_embedding_info('#'+str(i)) is the
\* internal ID i with the vocabulary row i, its decoded name and no loaded
\* reference.
C4_HashIdAnyStore ==
    \A i \in 0..(VocabSize - 1) : get_embedding_info(HashText(i)) = InternalRow(i)

\* C4 amended: the same for every valid ID i whose text '#'+str(i) is not
\* the name of a loaded embedding.
C4_HashIdUnlessLoaded ==
    \A i \in 0..(VocabSize - 1) :
        HashText(i) \notin DOMAIN loaded_embs
            => get_embedding_info(HashText(i)) = InternalRow(i)

\* '#12' is inspected as the internal ID 12 while an embedding saved under
\* the name '#1' is loaded
C4_Witness ==
    /\ call.op = "inspect" /\ call.args.text = <<"#", "1", "2">>
    /\ result.out = "report" /\ result.info = InternalRow(12)
    /\ <<"#", "1">> \in DOMAIN loaded_embs

BlankInput == call.op = "minitokenize" /\ strip(call.args.mini_input) = <<>>

\* C6 as stated: the mini tokenizer, returning from an empty or whitespace
\* input, returns no ID and the 6 name slots and the concat flag as they
\* were passed in, whatever the 'send IDs to mixer' flag is.
C6_BlankKeepsSlots ==
    BlankInput /\ result.out = "tokens"
        => /\ result.ids = <<>>
           /\ result.mix_inputs = call.args.mix_inputs
           /\ result.concat_mode = call.args.concat_mode

\* C6 amended: on a host with a supported tokenizer the mini tokenizer
\* returns from an empty or whitespace input with no ID; with the flag off
\* the 6 name slots and the concat flag are returned as passed in, with the
\* flag on all 6 name slots are returned empty and the concat flag set.
C6_BlankClearsWhenSent ==
    BlankInput
        => /\ embedder # "OtherEmbedder" => result.out = "tokens"
           /\ result.out = "tokens" =>
                /\ result.ids = <<>> /\ result.text = <<>>
                /\ IF call.args.mini_sendtomix
                   THEN /\ \A k \in 1..MAX_NUM_MIX : result.mix_inputs[k] = <<>>
                        /\ result.concat_mode
                   ELSE /\ result.mix_inputs = call.args.mix_inputs
                        /\ result.concat_mode = call.args.concat_mode

\* a whitespace input sent to a mixer whose slots were filled, concat off
C6_Witness ==
    /\ BlankInput /\ result.out = "tokens"
    /\ call.args.mini_input = <<" ", " ">>
    /\ call.args.mini_sendtomix /\ ~call.args.concat_mode
    /\ call.args.mix_inputs[1] = <<"a">>
    /\ result.mix_inputs[1] = <<>> /\ result.concat_mode

\* C9: in the state a do_save call that wrote its file returns in, the
\* loaded-embeddings dictionary holds an entry of the saved name with the
\* vector just mixed, and resolving that name returns this vector as a
\* loaded embedding.
C9_SavedIsLoaded ==
    call.op = "save" /\ result.wrote
        => /\ SaveName \in DOMAIN loaded_embs
           /\ loaded_embs[SaveName].name = SaveName
           /\ loaded_embs[SaveName].vec = result.tot_vec
           /\ get_embedding_info(SaveName).st = "ok"
           /\ get_embedding_info(SaveName).loaded
           /\ get_embedding_info(SaveName).vec = result.tot_vec

\* a mix saved as 'a', a name the tokenizer maps to the vocabulary ID 1: the
\* name now resolves to the two saved rows
C9_Witness ==
    /\ call.op = "save" /\ result.wrote /\ SaveName = <<"a">>
    /\ embedder = "FrozenCLIPEmbedder"
    /\ Len(result.tot_vec) = 2
    /\ get_embedding_info(<<"a">>).vec # <<get_data.internal_embs[2]>>

\* ----------------------------------------------------- claims about the mix
\* In the action formulas below args is the request being served (call'),
\* and its names are resolved in the state the request is made in.

Skipped(args, k) == strip(args.names[k]) = <<>> \/ args.mixvals[k] = 0

SlotInfo(args, k) == get_embedding_info(strip(args.names[k]))

\* the slots do_save does not skip, in slot order
NonSkipped(args) ==
    SelectSeq([k \in 1..MAX_NUM_MIX |-> k], LAMBDA k : ~Skipped(args, k))

AllResolve(args) ==
    \A k \in 1..MAX_NUM_MIX : ~Skipped(args, k) => SlotInfo(args, k).st = "ok"

SlotWidth(args, k) == shape1(SlotInfo(args, k).vec)

\* entry * weight
Weighted(args, k) == vec_mul(SlotInfo(args, k).vec, args.mixvals[k])

\* whether the call gets to the mix (it has a file name and may write)
Mixing(out) == out \notin {"empty_name", "exists"}

\* C2 as stated: when the name of a slot that is not skipped does not
\* resolve (get_embedding_info returns None) and another such slot's name
\* does, do_save returns its log and the entries that resolve are mixed.
C2_BadEntryDoesNotAbort ==
    [][(/\ call'.op = "save" /\ Mixing(result'.out)
        /\ \E k \in 1..MAX_NUM_MIX :
              ~Skipped(call'.args, k) /\ SlotInfo(call'.args, k).st = "none"
        /\ \E k \in 1..MAX_NUM_MIX :
              ~Skipped(call'.args, k) /\ SlotInfo(call'.args, k).st = "ok")
       => (result'.out = "log" /\ result'.tot_vec # <<>>)]_vars

\* a concat-mode request with exactly two slots not skipped, both resolving
ConcatOfTwo(args, out) ==
    /\ Mixing(out) /\ args.concat_mode
    /\ Len(NonSkipped(args)) = 2 /\ AllResolve(args)

ConcatTwoResult(args, k1, k2) ==
    IF SlotWidth(args, k1) = SlotWidth(args, k2)
    THEN vec_mul(Weighted(args, k1) \o Weighted(args, k2), args.global_mul)
    ELSE vec_mul(Weighted(args, k1), args.global_mul)

RECURSIVE MaxLen(_, _)
MaxLen(args, ks) ==
    IF ks = <<>> THEN 0
    ELSE LET n == Len(SlotInfo(args, Head(ks)).vec)
             m == MaxLen(args, Tail(ks))
         IN IF n > m THEN n ELSE m

\* sum over the slots ks of weight * (component d of the entry's row j, 0
\* when the entry has fewer than j rows)
RECURSIVE WeightedSum(_, _, _, _)
WeightedSum(args, ks, j, d) ==
    IF ks = <<>> THEN 0
    ELSE args.mixvals[Head(ks)]
            * (IF j <= Len(SlotInfo(args, Head(ks)).vec)
               THEN SlotInfo(args, Head(ks)).vec[j][d] ELSE 0)
         + WeightedSum(args, Tail(ks), j, d)

ExpectedSum(args, ks) ==
    [j \in 1..MaxLen(args, ks) |->
        [d \in 1..SlotWidth(args, ks[1]) |->
            args.global_mul * WeightedSum(args, ks, j, d)]]

\* a sum-mode request whose slots that are not skipped all resolve, to
\* entries of one per-row dimension
SumOfSameWidth(args, out) ==
    /\ Mixing(out) /\ ~args.concat_mode
    /\ NonSkipped(args) # <<>> /\ AllResolve(args)
    /\ \A k \in 1..MAX_NUM_MIX :
          ~Skipped(args, k) => SlotWidth(args, k) = SlotWidth(args, NonSkipped(args)[1])

\* C8: in sum mode the combined vector of contributing entries of one
\* per-row dimension has as many rows as the longest entry, and its row j is
\* the global multiplier times the sum over the entries of weight * row j of
\* the entry (the zero row where the entry is shorter).
C8_SumMode ==
    [][(call'.op = "save" /\ SumOfSameWidth(call'.args, result'.out))
       => (/\ result'.out = "log"
           /\ result'.tot_vec = ExpectedSum(call'.args, NonSkipped(call'.args)))]_vars

\* ' a ' (one row, weight -1) summed with 'b' twice (two rows), times 3
C8_Witness ==
    /\ call.op = "save" /\ result.out = "log" /\ ~call.args.concat_mode
    /\ embedder = "FrozenCLIPEmbedder"
    /\ call.args.names = <<<<" ", "a", " ">>, <<"b">>, <<"b">>, <<>>, <<>>, <<>>>>
    /\ call.args.global_mul = 3
    /\ result.tot_vec = <<<<9, 18>>, <<-6, 0>>>>

\* the log line of slot k when the call's vector size is size
MixLine(args, k, size) ==
    IF SlotWidth(args, k) # size
    THEN Line("skip", SlotInfo(args, k).name, SlotInfo(args, k).id, 0)
    ELSE Line(IF args.concat_mode THEN "concat" ELSE "add",
              SlotInfo(args, k).name, SlotInfo(args, k).id, args.mixvals[k])

MixLines(args, ks) ==
    [i \in 1..Len(ks) |-> MixLine(args, ks[i], SlotWidth(args, ks[1]))]

IsMixLine(line) == line.k \in {"skip", "add", "concat"}

\* C10: in a do_save call that returns a mixed vector, in either mode, the
\* per-row dimension of the first entry that is not skipped is the size of
\* every row of the vector, and the log holds, in slot order, a 'not
\* compatible, skipping' line for every entry of another dimension and a mix
\* line for every other entry, those after a skipped one included.
C10_FirstEntryFixesSize ==
    [][(call'.op = "save" /\ result'.out = "log" /\ result'.tot_vec # <<>>)
       => (/\ \A r \in 1..Len(result'.tot_vec) :
                 Len(result'.tot_vec[r])
                    = SlotWidth(call'.args, NonSkipped(call'.args)[1])
           /\ SelectSeq(result'.log, IsMixLine)
                = MixLines(call'.args, NonSkipped(call'.args))
           /\ result'.wrote =>
                files'[strip(call'.args.save_name)].vec = result'.tot_vec)]_vars

\* 'b' (width 2), then 'c' (width 3) skipped, then ' a ' (width 2) mixed
C10_Witness ==
    /\ call.op = "save" /\ result.out = "log" /\ result.wrote
    /\ embedder = "FrozenCLIPEmbedder"
    /\ call.args.names = <<<<"b">>, <<"c">>, <<" ", "a", " ">>, <<>>, <<>>, <<>>>>
    /\ SelectSeq(result.log, IsMixLine)[2].k = "skip"
    /\ SelectSeq(result.log, IsMixLine)[3].k \in {"add", "concat"}
    /\ \A r \in 1..Len(result.tot_vec) : Len(result.tot_vec[r]) = 2

\* ------------------------------------------------- claims about do_inspect

SimKey(id, vec_v) == cos_key(token_embedding(embedder)[id + 1], vec_v)

\* the 30 neighbours by descending similarity, equal ones by ascending ID
OrderedNeighbours(similar, vec_v) ==
    /\ Len(similar) = MAX_SIMILAR_EMBS
    /\ \A p \in 1..Len(similar), q \in 1..Len(similar) :
          p < q =>
            \/ key_gt(SimKey(similar[p].id, vec_v), SimKey(similar[q].id, vec_v))
            \/ /\ key_eq(SimKey(similar[p].id, vec_v), SimKey(similar[q].id, vec_v))
               /\ similar[p].id < similar[q].id

\* C7 as stated, on a vocabulary of at least 30 rows: for every row of the
\* inspected embedding of the vocabulary's width do_inspect reports 30
\* neighbours by descending cosine similarity, equal similarities by
\* ascending ID, and the first neighbour of vocabulary row i is i.
C7_NeighboursOrdered ==
    (/\ call.op = "inspect" /\ result.info.st = "ok"
     /\ get_data.tokenizer # "NoneType"
     /\ Len(get_data.internal_embs) >= MAX_SIMILAR_EMBS)
    => /\ result.out = "report"
       /\ \A v \in 1..Len(result.info.vec) :
             Len(result.info.vec[v]) = shape1(get_data.internal_embs)
             => /\ OrderedNeighbours(result.rows[v].similar, result.info.vec[v])
                /\ result.info.id.int
                     => result.rows[v].similar[1].id = result.info.id.val

====
